---- MODULE Spec2Model ----
(***************************************************************************)
(* Model of KontoudskriftParser.py: the reconstruction of bank statement   *)
(* line items from the positioned text fragments (<p><span>) of the pages  *)
(* of a statement.  Texts and styles are sequences of one-character        *)
(* strings, dates are records [year, month, day], Decimal values are       *)
(* records [sign, int, exp] as in Decimal.as_tuple().                      *)
(***************************************************************************)
EXTENDS Integers, Sequences, FiniteSets, TLC

(***************************************************************************)
(* Bounds of the model.                                                    *)
(***************************************************************************)
\* number of <p> elements in the pages of the document
MaxFragments == 10
\* largest doc.page_count
MaxPages == 2
\* number of <p> elements in the documents the caller hands over
MaxElements == 14
\* number of calls of parse_doc by the caller
MaxDocs == 2

(***************************************************************************)
(* Module constants, lines 13-16.                                          *)
(***************************************************************************)
ENTRY_DATE_LEFT_POSITION == 57
VALUE_DATE_LEFT_POSITION == 98
CREDITED_MIN_LEFT_POSITION == 390
BALANCE_MIN_LEFT_POSITION == 490

\* Optional values: None is the empty sequence, a value v is <<v>>
None == <<>>
Some(v) == <<v>>
Get(o) == o[1]

\* The outcome of a call: the value returned, or the exception raised
Ok(v) == [exc |-> "", val |-> <<v>>]
Raised(e) == [exc |-> e, val |-> <<>>]

(***************************************************************************)
(* str operations.                                                         *)
(***************************************************************************)
Digits == <<"0", "1", "2", "3", "4", "5", "6", "7", "8", "9">>

IsDigit(c) == \E i \in 1..10 : Digits[i] = c

DigitVal(c) == (CHOOSE i \in 1..10 : Digits[i] = c) - 1

\* str.startswith
StartsWith(text, prefix) ==
    /\ Len(prefix) <= Len(text)
    /\ SubSeq(text, 1, Len(prefix)) = prefix

\* str.endswith
EndsWith(text, suffix) ==
    /\ Len(suffix) <= Len(text)
    /\ SubSeq(text, Len(text) - Len(suffix) + 1, Len(text)) = suffix

\* sub occurs in text at index i
OccursAt(text, sub, i) ==
    /\ i >= 1
    /\ i + Len(sub) - 1 <= Len(text)
    /\ SubSeq(text, i, i + Len(sub) - 1) = sub

\* the `in` operator on strings
Contains(text, sub) == \E i \in 1..(Len(text) + 1) : OccursAt(text, sub, i)

\* str.find, 1-based; 0 when sub does not occur
Find(text, sub) ==
    IF Contains(text, sub)
    THEN CHOOSE i \in 1..(Len(text) + 1) :
            /\ OccursAt(text, sub, i)
            /\ \A j \in 1..(i - 1) : ~OccursAt(text, sub, j)
    ELSE 0

\* str.split(sep)
RECURSIVE Split(_, _)
Split(text, sep) ==
    LET i == Find(text, sep) IN
    IF i = 0 THEN <<text>>
    ELSE <<SubSeq(text, 1, i - 1)>>
            \o Split(SubSeq(text, i + Len(sep), Len(text)), sep)

\* int(digits); digits is a sequence of decimal digits
RECURSIVE ToInt(_)
ToInt(digits) ==
    IF digits = <<>> THEN 0
    ELSE 10 * ToInt(SubSeq(digits, 1, Len(digits) - 1))
            + DigitVal(digits[Len(digits)])

\* str(n) for n >= 0
RECURSIVE IntToStr(_)
IntToStr(n) ==
    IF n < 10 THEN <<Digits[n + 1]>>
    ELSE IntToStr(n \div 10) \o <<Digits[(n % 10) + 1]>>

\* zero padding to width w, as %d, %m and %Y of strftime do
RECURSIVE ZeroPad(_, _)
ZeroPad(s, w) == IF Len(s) >= w THEN s ELSE ZeroPad(<<"0">> \o s, w)

\* " ".join(parts)
RECURSIVE JoinSpace(_)
JoinSpace(parts) ==
    IF parts = <<>> THEN <<>>
    ELSE IF Len(parts) = 1 THEN parts[1]
    ELSE parts[1] \o <<" ">> \o JoinSpace(Tail(parts))

\* the characters of text that satisfy keep, in order
RECURSIVE FilterChars(_, _)
FilterChars(text, keep) ==
    IF text = <<>> THEN <<>>
    ELSE (IF text[1] \in keep THEN <<text[1]>> ELSE <<>>)
            \o FilterChars(Tail(text), keep)

(***************************************************************************)
(* datetime.                                                               *)
(***************************************************************************)
IsLeap(y) == (y % 4 = 0 /\ y % 100 # 0) \/ y % 400 = 0

DaysInMonth(y, m) ==
    IF m = 2 THEN (IF IsLeap(y) THEN 29 ELSE 28)
    ELSE IF m \in {4, 6, 9, 11} THEN 30 ELSE 31

RECURSIVE DaysBeforeMonth(_, _)
DaysBeforeMonth(y, m) ==
    IF m <= 1 THEN 0 ELSE DaysBeforeMonth(y, m - 1) + DaysInMonth(y, m - 1)

\* datetime.toordinal: the number of the day, 0001-01-01 being day 1
ToOrdinal(d) ==
    LET y == d.year - 1 IN
    y * 365 + (y \div 4) - (y \div 100) + (y \div 400)
        + DaysBeforeMonth(d.year, d.month) + d.day

\* datetime.__lt__ and __le__ (all the datetimes are at midnight)
DateLT(a, b) == ToOrdinal(a) < ToOrdinal(b)
DateLE(a, b) == ToOrdinal(a) <= ToOrdinal(b)

\* (a - b) in days, the timedelta of two midnights
DaysBetween(a, b) == ToOrdinal(a) - ToOrdinal(b)

ValueError == "ValueError"

\* datetime(y, mm, dd), or ValueError
MakeDate(dd, mm, y) ==
    IF mm >= 1 /\ mm <= 12 /\ dd >= 1 /\ dd <= DaysInMonth(y, mm) /\ y >= 1
    THEN Ok([year |-> y, month |-> mm, day |-> dd])
    ELSE Raised(ValueError)

\* match(r"^\d\d\.\d\d$", text)
MatchesDayMonth(text) ==
    /\ Len(text) = 5
    /\ IsDigit(text[1]) /\ IsDigit(text[2])
    /\ text[3] = "."
    /\ IsDigit(text[4]) /\ IsDigit(text[5])

\* datetime.strptime(f"{text}.{year}", "%d.%m.%Y") for a text that matches
\* \d\d\.\d\d
StrptimeDayMonth(text, year) ==
    MakeDate(ToInt(SubSeq(text, 1, 2)), ToInt(SubSeq(text, 4, 5)), year)

\* datetime.strptime(text, "%d.%m.%Y") for two-digit days and months
StrptimeFull(text) ==
    IF /\ Len(text) = 10
       /\ MatchesDayMonth(SubSeq(text, 1, 5))
       /\ text[6] = "."
       /\ \A i \in 7..10 : IsDigit(text[i])
    THEN StrptimeDayMonth(SubSeq(text, 1, 5), ToInt(SubSeq(text, 7, 10)))
    ELSE Raised(ValueError)

\* d.strftime("%d. %m. %Y")
StrftimeSpaced(d) ==
    ZeroPad(IntToStr(d.day), 2) \o <<".", " ">>
        \o ZeroPad(IntToStr(d.month), 2) \o <<".", " ">>
        \o ZeroPad(IntToStr(d.year), 4)

\* d.strftime("%Y/%m/%d")
StrftimeSlashed(d) ==
    ZeroPad(IntToStr(d.year), 4) \o <<"/">>
        \o ZeroPad(IntToStr(d.month), 2) \o <<"/">>
        \o ZeroPad(IntToStr(d.day), 2)

(***************************************************************************)
(* Decimal.                                                                *)
(***************************************************************************)
InvalidOperation == "InvalidOperation"
MalformedCurrency == "MalformedCurrency"

\* [c for c in "1234567890."]
CurrencyChars == {"1", "2", "3", "4", "5", "6", "7", "8", "9", "0", "."}

\* Decimal(s) for a string s of digits and periods
DecimalOf(s) ==
    LET digs == FilterChars(s, CurrencyChars \ {"."})
        dots == Len(s) - Len(digs)
        dot  == Find(s, <<".">>)
    IN  IF dots > 1 \/ digs = <<>> THEN Raised(InvalidOperation)
        ELSE Ok([sign |-> 0,
                 int  |-> ToInt(digs),
                 exp  |-> IF dot = 0 THEN 0 ELSE 0 - (Len(s) - dot)])

\* Decimal.__mul__ with the int 1 or -1
DecimalTimesUnit(d, unit) ==
    [d EXCEPT !.sign = IF unit < 0 THEN 1 - d.sign ELSE d.sign]

\* the decoder with the period stripped like every other separator
bank_currency_format_digits_only(text) ==
    LET d == DecimalOf(FilterChars(text, CurrencyChars \ {"."})) IN
    IF d.exc # "" THEN d
    ELSE IF EndsWith(text, <<"+">>) THEN Ok(DecimalTimesUnit(Get(d.val), 1))
    ELSE IF EndsWith(text, <<"-">>) THEN Ok(DecimalTimesUnit(Get(d.val), -1))
    ELSE Raised(MalformedCurrency)

\* the decoder taking a text without a sign for a positive amount
bank_currency_format_unsigned_positive(text) ==
    LET d == DecimalOf(FilterChars(text, CurrencyChars)) IN
    IF d.exc # "" THEN d
    ELSE IF EndsWith(text, <<"-">>) THEN Ok(DecimalTimesUnit(Get(d.val), -1))
    ELSE Ok(DecimalTimesUnit(Get(d.val), 1))

\* bank_currency_format_to_decimal
bank_currency_format_to_decimal(text) ==
    LET d == DecimalOf(FilterChars(text, CurrencyChars)) IN
    IF d.exc # "" THEN d
    ELSE IF EndsWith(text, <<"+">>) THEN Ok(DecimalTimesUnit(Get(d.val), 1))
    ELSE IF EndsWith(text, <<"-">>) THEN Ok(DecimalTimesUnit(Get(d.val), -1))
    ELSE Raised(MalformedCurrency)

(***************************************************************************)
(* BankItemLine.                                                           *)
(***************************************************************************)
\* BankItemLine(): every field None, a fresh empty description
BankItemLine ==
    [entry_time  |-> None,
     value_time  |-> None,
     description |-> <<>>,
     credited    |-> None,
     balance     |-> None]

\* is_complete without its test of the balance
is_complete_without_balance(r) ==
    IF r.entry_time = None THEN FALSE
    ELSE IF r.value_time = None THEN FALSE
    ELSE IF r.credited = None THEN FALSE
    ELSE IF Len(r.description) < 1 THEN FALSE
    ELSE TRUE

\* BankItemLine.is_complete
is_complete(r) ==
    IF r.entry_time = None THEN FALSE
    ELSE IF r.value_time = None THEN FALSE
    ELSE IF r.credited = None THEN FALSE
    ELSE IF r.balance = None THEN FALSE
    ELSE IF Len(r.description) < 1 THEN FALSE
    ELSE TRUE

\* BankItemLine.__lt__
ItemLT(a, b) == DateLT(Get(a.entry_time), Get(b.entry_time))

\* sorted(items): the sort is stable and compares with __lt__ alone; x goes
\* before the first element that is greater than x
\* an insertion that puts x before the elements equal to it
RECURSIVE InsertSorted_before_equal(_, _)
InsertSorted_before_equal(x, s) ==
    IF s = <<>> THEN <<x>>
    ELSE IF ~ItemLT(s[1], x) THEN <<x>> \o s
    ELSE <<s[1]>> \o InsertSorted_before_equal(x, Tail(s))

RECURSIVE InsertSorted(_, _)
InsertSorted(x, s) ==
    IF s = <<>> THEN <<x>>
    ELSE IF ItemLT(x, s[1]) THEN <<x>> \o s
    ELSE <<s[1]>> \o InsertSorted(x, Tail(s))

RECURSIVE Sorted(_)
Sorted(s) ==
    IF s = <<>> THEN <<>>
    ELSE InsertSorted(s[Len(s)], Sorted(SubSeq(s, 1, Len(s) - 1)))

(***************************************************************************)
(* The <p> elements of a page.  A fragment is                              *)
(*   [span: whether the <p> has a <span>, text: the span's text,           *)
(*    span_style, par_style: the style attributes, None when missing].     *)
(***************************************************************************)
\* lines 108-119: the element is kept when it has a span, both style
\* attributes exist and the span's style has font-size:9pt
IsBodyText(f) ==
    /\ f.span
    /\ f.span_style # None
    /\ f.par_style # None
    /\ Contains(Get(f.span_style),
                <<"f", "o", "n", "t", "-", "s", "i", "z", "e", ":", "9", "p", "t">>)

\* the digits of style that start at index i
RECURSIVE DigitRun(_, _)
DigitRun(style, i) ==
    IF i <= Len(style) /\ IsDigit(style[i])
    THEN <<style[i]>> \o DigitRun(style, i + 1)
    ELSE <<>>

\* left:(\d+)pt matches style at index i
LeftMatchesAt(style, i) ==
    /\ OccursAt(style, <<"l", "e", "f", "t", ":">>, i)
    /\ DigitRun(style, i + 5) # <<>>
    /\ OccursAt(style, <<"p", "t">>, i + 5 + Len(DigitRun(style, i + 5)))

\* lines 142-145: match(r"^.*left:(\d+)pt", par_style) and int(group(1));
\* the greedy .* takes the last place where the rest matches; None when
\* there is no match
LeftAmount(style) ==
    LET places == {i \in 1..Len(style) : LeftMatchesAt(style, i)} IN
    IF places = {} THEN None
    ELSE LET i == CHOOSE k \in places : \A j \in places : j <= k
         IN  Some(ToInt(DigitRun(style, i + 5)))

(***************************************************************************)
(* The elements the pages are made of.                                     *)
(***************************************************************************)
\* style of a <p> at the left position n
ParStyle(n) ==
    <<"t", "o", "p", ":", "7", "5", "p", "t", ";", "l", "e", "f", "t", ":">>
        \o IntToStr(n) \o <<"p", "t">>

\* a <p> with a 9pt span
Body(text, n) ==
    [span       |-> TRUE,
     text       |-> text,
     span_style |-> Some(<<"f", "o", "n", "t", "-", "f", "a", "m", "i", "l", "y",
                           ":", "A", ";", "f", "o", "n", "t", "-", "s", "i", "z",
                           "e", ":", "9", "p", "t">>),
     par_style  |-> Some(ParStyle(n))]

TxtPeriodA ==
    <<"P", "e", "r", "i", "o", "d", " ", "t", "h", "i", "s", " ", "s", "t", "a",
      "t", "e", "m", "e", "n", "t", " ", "r", "e", "l", "a", "t", "e", "s", " ",
      "t", "o", ":", " ", "0", "1", ".", "0", "9", ".", "2", "0", "1", "6", " ",
      "t", "o", " ", "3", "0", ".", "1", "1", ".", "2", "0", "1", "6">>

TxtPeriodB ==
    <<"P", "e", "r", "i", "o", "d", " ", "t", "h", "i", "s", " ", "s", "t", "a",
      "t", "e", "m", "e", "n", "t", " ", "r", "e", "l", "a", "t", "e", "s", " ",
      "t", "o", ":", " ", "0", "1", ".", "1", "2", ".", "2", "0", "1", "5", " ",
      "t", "o", " ", "0", "1", ".", "0", "3", ".", "2", "0", "1", "6">>

TxtBalanceA ==
    <<"B", "a", "l", "a", "n", "c", "e", " ", "a", "s", " ", "a", "t", " ",
      "3", "0", ".", " ", "1", "1", ".", " ", "2", "0", "1", "6">>

TxtPayment == <<"P", "a", "y", "m", "e", "n", "t">>
TxtReceived == <<"r", "e", "c", "e", "i", "v", "e", "d">>

\* the elements a page is drawn from
Pool ==
    << Body(TxtPeriodA, 57),                                         \* 1
       Body(<<"1", "5", ".", "1", "0">>, 57),                        \* 2
       Body(<<"1", "6", ".", "1", "0">>, 98),                        \* 3
       Body(TxtPayment, 150),                                        \* 4
       Body(TxtReceived, 150),                                       \* 5
       Body(<<"1", "0", "0", ",", "0", "0", "+">>, 400),             \* 6
       Body(<<"1", ".", "5", "0", "0", ",", "0", "0", "+">>, 500),   \* 7
       Body(TxtBalanceA, 500),                                       \* 8
       Body(<<"4", "8", ".", "0", "0">>, 57),                        \* 9
       Body(<<"2", "9", ".", "0", "2">>, 57),                        \* 10
       Body(TxtPeriodB, 57),                                         \* 11
       Body(<<"0", "1", ".", "0", "9">>, 98),                        \* 12
       Body(<<"5", "0", ",", "0", "0">>, 400),                       \* 13
       Body(TxtPayment, 400),                                        \* 14
       [Body(<<"1", "5", ".", "1", "0">>, 57) EXCEPT                 \* 15
           !.span_style = Some(<<"f", "o", "n", "t", "-", "s", "i", "z", "e",
                                 ":", "1", "2", "p", "t">>)],
       [Body(TxtPayment, 150) EXCEPT                                 \* 16
           !.par_style = Some(<<"t", "o", "p", ":", "7", "5", "p", "t">>)],
       Body(TxtPayment, 57),                                         \* 17
       Body(<<"2", "5", ".", "0", "0", "-">>, 500),                  \* 18
       Body(<<"5", "0", ",", "0", "0">>, 500),                       \* 19
       Body(<<"0", "1", ".", "0", "9">>, 57),                        \* 20
       Body(<<"1", "0", "0", ",", "0", "0", "+">>, 490),             \* 21
       Body(TxtPayment, 390)                                         \* 22
    >>

\* Scenario 1 of the specification, as indexes of Pool
Scenario1 == <<1, 2, 3, 4, 5, 6, 7>>

\* lines 108-119 and 142-145 look at the element alone: what they give is
\* computed once for each element of Pool
BodyTextOf == [i \in 1..Len(Pool) |-> IsBodyText(Pool[i])]

LeftAmountOf ==
    [i \in 1..Len(Pool) |->
        IF Pool[i].par_style = None THEN None
        ELSE LeftAmount(Get(Pool[i].par_style))]

(***************************************************************************)
(* parse_page: the locals of the function are the record                   *)
(*   [items, record, is_recording, time_range_start, time_range_end, exc]  *)
(* where exc is the exception that left the function ("" for none).        *)
(***************************************************************************)
DateOutOfRange == "DateOutOfRange"
ValueDateUnresolved == "ValueDateUnresolved"
MissingLayoutOffset == "MissingLayoutOffset"
IncompleteRecordOnNewEntry == "IncompleteRecordOnNewEntry"
IncompletePageEnd == "IncompletePageEnd"
AttributeError == "AttributeError"
IndexError == "IndexError"

\* lines 96-101
PageStart ==
    [items            |-> <<>>,
     record           |-> None,
     is_recording     |-> FALSE,
     time_range_start |-> None,
     time_range_end   |-> None,
     exc              |-> ""]

Throw(st, e) == [st EXCEPT !.exc = e]

\* lines 131-135
PeriodMarker(st, text) ==
    LET parts == Split(text, <<":", " ">>) IN
    IF Len(parts) < 2 THEN Throw(st, IndexError)
    ELSE LET dates == Split(parts[2], <<" ", "t", "o", " ">>)
             first == StrptimeFull(dates[1])
         IN  IF first.exc # "" THEN Throw(st, first.exc)
             ELSE IF Len(dates) < 2 THEN Throw(st, IndexError)
             ELSE LET second == StrptimeFull(dates[2]) IN
                  IF second.exc # "" THEN Throw(st, second.exc)
                  ELSE [st EXCEPT !.time_range_start = first.val,
                                  !.time_range_end = second.val,
                                  !.is_recording = TRUE]

\* an "entry date" taken in the first year without a look at the period
EntryStamp_first_valid(text, start, end) ==
    LET first == StrptimeDayMonth(text, start.year) IN
    IF first.exc # "" THEN None ELSE first.val

\* lines 160-169: the year of an "entry date": the valid stamp, or None
EntryStamp(text, start, end) ==
    LET first == StrptimeDayMonth(text, start.year) IN
    IF first.exc # "" THEN None
    ELSE IF DateLE(start, Get(first.val)) /\ DateLE(Get(first.val), end)
    THEN first.val
    ELSE LET second == StrptimeDayMonth(text, end.year) IN
         IF second.exc # "" THEN None
         ELSE IF DateLE(start, Get(second.val)) /\ DateLE(Get(second.val), end)
         THEN second.val
         ELSE None

\* lines 171-176: the year of a "value date": the outcome is the valid stamp
\* or None, or the ValueError of strptime
ValueStamp(text, entry_time) ==
    LET first == StrptimeDayMonth(text, entry_time.year) IN
    IF first.exc # "" THEN first
    ELSE IF DaysBetween(Get(first.val), entry_time) < 7 THEN Ok(first.val)
    ELSE LET second == StrptimeDayMonth(text, entry_time.year + 1) IN
         IF second.exc # "" THEN second
         ELSE IF DaysBetween(Get(second.val), entry_time) < 7
         THEN Ok(second.val)
         ELSE Ok(None)

\* a new entry that keeps writing to the record it has just appended
NewEntry_reusing_record(st, stamp) ==
    IF st.record = None
    THEN [st EXCEPT !.record = Some([BankItemLine EXCEPT !.entry_time = stamp])]
    ELSE IF is_complete(Get(st.record))
    THEN [st EXCEPT !.items = Append(st.items, Get(st.record)),
                    !.record = Some([Get(st.record) EXCEPT !.entry_time = stamp])]
    ELSE Throw(st, IncompleteRecordOnNewEntry)

\* a new entry that opens the record without its entry date
NewEntry_without_entry_time(st, stamp) ==
    IF st.record = None
    THEN [st EXCEPT !.record = Some(BankItemLine)]
    ELSE IF is_complete(Get(st.record))
    THEN [st EXCEPT !.items = Append(st.items, Get(st.record)),
                    !.record = Some(BankItemLine)]
    ELSE Throw(st, IncompleteRecordOnNewEntry)

\* lines 184-193: a new entry timestamp starts a new line item
NewEntry(st, stamp) ==
    IF st.record = None
    THEN [st EXCEPT !.record = Some([BankItemLine EXCEPT !.entry_time = stamp])]
    ELSE IF is_complete(Get(st.record))
    THEN [st EXCEPT !.items = Append(st.items, Get(st.record)),
                    !.record = Some([BankItemLine EXCEPT !.entry_time = stamp])]
    ELSE Throw(st, IncompleteRecordOnNewEntry)

\* lines 147-198: an element at the left position of one of the two dates
DateBand(st, text, is_entry) ==
    IF ~MatchesDayMonth(text) THEN st
    ELSE IF is_entry
    THEN LET valid_stamp == EntryStamp(text, Get(st.time_range_start),
                                       Get(st.time_range_end))
         IN  IF valid_stamp = None THEN Throw(st, DateOutOfRange)
             ELSE NewEntry(st, valid_stamp)
    ELSE IF st.record = None \/ Get(st.record).entry_time = None
    THEN Throw(st, AttributeError)
    ELSE LET stamp == ValueStamp(text, Get(Get(st.record).entry_time)) IN
         IF stamp.exc # "" THEN Throw(st, stamp.exc)
         ELSE IF Get(stamp.val) = None THEN Throw(st, ValueDateUnresolved)
         ELSE [st EXCEPT !.record =
                    Some([Get(st.record) EXCEPT !.value_time = Get(stamp.val)])]

\* bands that append a text to the description of the record appended last
\* while the open record has no value date yet
FieldBand_writing_last_item(st, text, left_amount) ==
    IF st.record = None THEN st
    ELSE IF Get(st.record).value_time = None
    THEN IF st.items = <<>> \/ left_amount > CREDITED_MIN_LEFT_POSITION THEN st
         ELSE [st EXCEPT !.items[Len(st.items)].description = Append(@, text)]
    ELSE IF left_amount > BALANCE_MIN_LEFT_POSITION
    THEN LET d == bank_currency_format_to_decimal(text) IN
         IF d.exc # "" THEN Throw(st, d.exc)
         ELSE [st EXCEPT !.record =
                    Some([Get(st.record) EXCEPT !.balance = d.val])]
    ELSE IF left_amount > CREDITED_MIN_LEFT_POSITION
    THEN LET d == bank_currency_format_to_decimal(text) IN
         IF d.exc # "" THEN Throw(st, d.exc)
         ELSE [st EXCEPT !.record =
                    Some([Get(st.record) EXCEPT !.credited = d.val])]
    ELSE [st EXCEPT !.record =
            Some([Get(st.record) EXCEPT
                    !.description = Append(Get(st.record).description, text)])]

\* bands that test the credited threshold before the balance threshold
FieldBand_credited_first(st, text, left_amount) ==
    IF st.record = None \/ Get(st.record).value_time = None THEN st
    ELSE IF left_amount > CREDITED_MIN_LEFT_POSITION
    THEN LET d == bank_currency_format_to_decimal(text) IN
         IF d.exc # "" THEN Throw(st, d.exc)
         ELSE [st EXCEPT !.record =
                    Some([Get(st.record) EXCEPT !.credited = d.val])]
    ELSE IF left_amount > BALANCE_MIN_LEFT_POSITION
    THEN LET d == bank_currency_format_to_decimal(text) IN
         IF d.exc # "" THEN Throw(st, d.exc)
         ELSE [st EXCEPT !.record =
                    Some([Get(st.record) EXCEPT !.balance = d.val])]
    ELSE [st EXCEPT !.record =
            Some([Get(st.record) EXCEPT
                    !.description = Append(Get(st.record).description, text)])]

\* lines 200-211: balance, credited and description texts
FieldBand(st, text, left_amount) ==
    IF st.record = None \/ Get(st.record).value_time = None THEN st
    ELSE IF left_amount > BALANCE_MIN_LEFT_POSITION
    THEN LET d == bank_currency_format_to_decimal(text) IN
         IF d.exc # "" THEN Throw(st, d.exc)
         ELSE [st EXCEPT !.record =
                    Some([Get(st.record) EXCEPT !.balance = d.val])]
    ELSE IF left_amount > CREDITED_MIN_LEFT_POSITION
    THEN LET d == bank_currency_format_to_decimal(text) IN
         IF d.exc # "" THEN Throw(st, d.exc)
         ELSE [st EXCEPT !.record =
                    Some([Get(st.record) EXCEPT !.credited = d.val])]
    ELSE [st EXCEPT !.record =
            Some([Get(st.record) EXCEPT
                    !.description = Append(Get(st.record).description, text)])]

\* a loop that looks for the left offset before it looks at is_recording
LoopBody_offset_first(st, i) ==
    LET f == Pool[i] IN
    IF ~BodyTextOf[i] THEN st
    ELSE IF /\ st.time_range_end # None
            /\ StartsWith(f.text,
                    <<"B", "a", "l", "a", "n", "c", "e", " ", "a", "s", " ",
                      "a", "t", " ">> \o StrftimeSpaced(Get(st.time_range_end)))
    THEN [st EXCEPT !.is_recording = FALSE]
    ELSE IF /\ ~st.is_recording
            /\ StartsWith(f.text,
                    <<"P", "e", "r", "i", "o", "d", " ", "t", "h", "i", "s", " ",
                      "s", "t", "a", "t", "e", "m", "e", "n", "t", " ",
                      "r", "e", "l", "a", "t", "e", "s", " ", "t", "o">>)
    THEN PeriodMarker(st, f.text)
    ELSE LET left_style == LeftAmountOf[i] IN
         IF left_style = None THEN Throw(st, MissingLayoutOffset)
         ELSE IF ~st.is_recording THEN st
         ELSE IF Get(left_style) \in {ENTRY_DATE_LEFT_POSITION,
                                      VALUE_DATE_LEFT_POSITION}
         THEN DateBand(st, f.text, Get(left_style) = ENTRY_DATE_LEFT_POSITION)
         ELSE FieldBand(st, f.text, Get(left_style))

\* a loop that takes every <p>, whatever its span and styles
LoopBody_without_filter(st, i) ==
    LET f == Pool[i] IN
    IF /\ st.time_range_end # None
            /\ StartsWith(f.text,
                    <<"B", "a", "l", "a", "n", "c", "e", " ", "a", "s", " ",
                      "a", "t", " ">> \o StrftimeSpaced(Get(st.time_range_end)))
    THEN [st EXCEPT !.is_recording = FALSE]
    ELSE IF /\ ~st.is_recording
            /\ StartsWith(f.text,
                    <<"P", "e", "r", "i", "o", "d", " ", "t", "h", "i", "s", " ",
                      "s", "t", "a", "t", "e", "m", "e", "n", "t", " ",
                      "r", "e", "l", "a", "t", "e", "s", " ", "t", "o">>)
    THEN PeriodMarker(st, f.text)
    ELSE IF ~st.is_recording THEN st
    ELSE LET left_style == LeftAmountOf[i] IN
         IF left_style = None THEN Throw(st, MissingLayoutOffset)
         ELSE IF Get(left_style) \in {ENTRY_DATE_LEFT_POSITION,
                                      VALUE_DATE_LEFT_POSITION}
         THEN DateBand(st, f.text, Get(left_style) = ENTRY_DATE_LEFT_POSITION)
         ELSE FieldBand(st, f.text, Get(left_style))

\* lines 105-211: one turn of the loop over the <p> elements, for the
\* element Pool[i]
LoopBody(st, i) ==
    LET f == Pool[i] IN
    IF ~BodyTextOf[i] THEN st
    ELSE IF /\ st.time_range_end # None
            /\ StartsWith(f.text,
                    <<"B", "a", "l", "a", "n", "c", "e", " ", "a", "s", " ",
                      "a", "t", " ">> \o StrftimeSpaced(Get(st.time_range_end)))
    THEN [st EXCEPT !.is_recording = FALSE]
    ELSE IF /\ ~st.is_recording
            /\ StartsWith(f.text,
                    <<"P", "e", "r", "i", "o", "d", " ", "t", "h", "i", "s", " ",
                      "s", "t", "a", "t", "e", "m", "e", "n", "t", " ",
                      "r", "e", "l", "a", "t", "e", "s", " ", "t", "o">>)
    THEN PeriodMarker(st, f.text)
    ELSE IF ~st.is_recording THEN st
    ELSE LET left_style == LeftAmountOf[i] IN
         IF left_style = None THEN Throw(st, MissingLayoutOffset)
         ELSE IF Get(left_style) \in {ENTRY_DATE_LEFT_POSITION,
                                      VALUE_DATE_LEFT_POSITION}
         THEN DateBand(st, f.text, Get(left_style) = ENTRY_DATE_LEFT_POSITION)
         ELSE FieldBand(st, f.text, Get(left_style))

\* the end of the page without the append of the open record
PageEnd_without_append(st) ==
    IF st.record = None THEN st
    ELSE IF is_complete(Get(st.record)) THEN st
    ELSE IF Get(st.record).entry_time # None THEN Throw(st, IncompletePageEnd)
    ELSE st

\* lines 213-220: after the loop
PageEnd(st) ==
    IF st.record = None THEN st
    ELSE IF is_complete(Get(st.record))
    THEN [st EXCEPT !.items = Append(st.items, Get(st.record))]
    ELSE IF Get(st.record).entry_time # None THEN Throw(st, IncompletePageEnd)
    ELSE st

(***************************************************************************)
(* State.                                                                  *)
(***************************************************************************)
VARIABLES
    pc,               \* "doc": in parse_doc, between pages; "page": in the loop
                      \* of parse_page; "done": parse_doc returned; "error"
    page_number,      \* pages parse_doc has started; doc.page_count is the
                      \* value it has when parse_doc returns
    doc_items,        \* items of parse_doc
    result,           \* the list parse_doc returned, None before
    page_result,      \* the list the last parse_page returned
    exc,              \* the exception that left parse_doc, "" for none
    items,            \* locals of parse_page
    record,
    is_recording,
    time_range_start,
    time_range_end,
    read,             \* number of <p> elements of the document read so far
    scen,             \* the elements read on the page are the first scen
                      \* elements of Scenario1; -1 when they are not
    doc,              \* the pages the running call of parse_doc was given
    rest,             \* the elements of the page still to be read
    calls,            \* the calls of parse_doc that ended, in order
    kontoudskrift_items   \* the list of __main__

vars == <<pc, page_number, doc_items, result, page_result, exc,
          items, record, is_recording, time_range_start, time_range_end,
          read, scen, doc, rest, calls, kontoudskrift_items>>

\* what the caller of parse_doc holds
caller == <<doc, rest, calls, kontoudskrift_items>>

locals == <<items, record, is_recording, time_range_start, time_range_end>>

Locals ==
    [items            |-> items,
     record           |-> record,
     is_recording     |-> is_recording,
     time_range_start |-> time_range_start,
     time_range_end   |-> time_range_end,
     exc              |-> ""]

SetLocals(st) ==
    /\ items' = st.items
    /\ record' = st.record
    /\ is_recording' = st.is_recording
    /\ time_range_start' = st.time_range_start
    /\ time_range_end' = st.time_range_end

\* lines 85-86
Init ==
    /\ pc = "doc"
    /\ page_number = 0
    /\ doc_items = <<>>
    /\ result = None
    /\ page_result = <<>>
    /\ exc = ""
    /\ items = <<>>
    /\ record = None
    /\ is_recording = FALSE
    /\ time_range_start = None
    /\ time_range_end = None
    /\ read = 0
    /\ scen = 0
    /\ doc = <<>>
    /\ rest = <<>>
    /\ calls = <<>>
    /\ kontoudskrift_items = <<>>

\* a call of parse_page that goes on with the values the last call left
StartPage_keeping_locals ==
    /\ pc = "doc"
    /\ page_number < MaxPages
    /\ pc' = "page"
    /\ page_number' = page_number + 1
    /\ scen' = 0
    /\ UNCHANGED <<doc_items, result, page_result, exc, read, locals>>

\* lines 87-89 and 94-101: parse_doc calls parse_page on the next page
StartPage ==
    /\ pc = "doc"
    /\ page_number < MaxPages
    /\ pc' = "page"
    /\ page_number' = page_number + 1
    /\ SetLocals(PageStart)
    /\ scen' = 0
    /\ UNCHANGED <<doc_items, result, page_result, exc, read>>

\* lines 105-211: the loop reads the next <p> of the page
Read(i) ==
    /\ pc = "page"
    /\ read' = read + 1
    /\ scen' = IF scen >= 0 /\ scen < Len(Scenario1) /\ Scenario1[scen + 1] = i
               THEN scen + 1 ELSE -1
    /\ LET st == LoopBody(Locals, i) IN
        IF st.exc # ""
        THEN /\ pc' = "error"
             /\ exc' = st.exc
             /\ UNCHANGED locals
        ELSE /\ SetLocals(st)
             /\ UNCHANGED <<pc, exc>>
    /\ UNCHANGED <<page_number, doc_items, result, page_result>>

\* any element of Pool may be the next one, MaxFragments elements a document
ReadFragment == read < MaxFragments /\ \E i \in 1..Len(Pool) : Read(i)

\* lines 213-220 and 89: the page has no more elements; parse_page returns
\* sorted(items) and parse_doc adds it to its items
EndPage ==
    /\ pc = "page"
    /\ LET st == PageEnd(Locals) IN
        IF st.exc # ""
        THEN /\ pc' = "error"
             /\ exc' = st.exc
             /\ UNCHANGED <<locals, page_result, doc_items>>
        ELSE /\ pc' = "doc"
             /\ page_result' = Sorted(st.items)
             /\ doc_items' = doc_items \o Sorted(st.items)
             /\ SetLocals(st)
             /\ UNCHANGED exc
    /\ UNCHANGED <<page_number, result, read, scen>>

\* line 90: the page read last was the last of the document (any number of
\* pages up to MaxPages is a page count): parse_doc returns sorted(items)
ReturnDoc ==
    /\ pc = "doc"
    /\ pc' = "done"
    /\ result' = Some(Sorted(doc_items))
    /\ UNCHANGED <<page_number, doc_items, page_result, exc,
                   locals, read, scen>>

\* one document, its pages made of any elements of Pool
Next ==
    \/ StartPage /\ UNCHANGED caller
    \/ ReadFragment /\ UNCHANGED caller
    \/ EndPage /\ UNCHANGED caller
    \/ ReturnDoc /\ UNCHANGED caller

Spec == Init /\ [][Next]_vars

(***************************************************************************)
(* Whole documents.  The caller (__main__, lines 223-239, or any other     *)
(* caller of parse_doc) gives parse_doc one document after the other; a    *)
(* document is a sequence of pages of Pages, a page a sequence of indexes  *)
(* of Pool.                                                                *)
(***************************************************************************)
Pages ==
    << <<1, 2, 3, 4, 5, 6, 7>>,                 \* 1: 15.10 "Payment received"
       <<1, 2, 3, 5, 6, 18>>,                   \* 2: 15.10 "received"
       <<1, 20, 12, 4, 6, 7>>,                  \* 3: 01.09 "Payment"
       <<1, 2, 3, 4, 6, 7, 20, 12, 5, 6, 18>>,  \* 4: 15.10, then 01.09
       <<1, 2, 3, 4, 6, 7, 2, 3, 5, 6, 18>>,    \* 5: 15.10 twice
       <<1, 2, 3, 13>>,                         \* 6: an amount without sign
       <<2, 3, 4, 6, 7>>,                       \* 7: no period marker
       <<1, 2, 3, 4, 6>>,                       \* 8: the balance is missing
       <<7>>                                    \* 9: a balance alone
    >>

\* as Init, in the caller
DocInit ==
    /\ pc = "main"
    /\ page_number = 0
    /\ doc_items = <<>>
    /\ result = None
    /\ page_result = <<>>
    /\ exc = ""
    /\ items = <<>>
    /\ record = None
    /\ is_recording = FALSE
    /\ time_range_start = None
    /\ time_range_end = None
    /\ read = 0
    /\ scen = 0
    /\ doc = <<>>
    /\ rest = <<>>
    /\ calls = <<>>
    /\ kontoudskrift_items = <<>>

\* a call of parse_doc that goes on with the list of the last call
CallParseDoc_keeping_items ==
    /\ pc = "main"
    /\ Len(calls) < MaxDocs
    /\ pc' = "doc"
    /\ page_number' = 0
    /\ result' = None
    /\ exc' = ""
    /\ scen' = 0
    /\ doc' = <<>>
    /\ UNCHANGED <<doc_items, page_result, locals, read, rest, calls,
                   kontoudskrift_items>>

\* line 232, lines 85-86: parse_doc is called on the next document; the
\* variables of the model keep what the last call left in them until the
\* code of the new call assigns them
CallParseDoc ==
    /\ pc = "main"
    /\ Len(calls) < MaxDocs
    /\ pc' = "doc"
    /\ page_number' = 0
    /\ doc_items' = <<>>
    /\ result' = None
    /\ exc' = ""
    /\ scen' = 0
    /\ doc' = <<>>
    /\ UNCHANGED <<page_result, locals, read, rest, calls,
                   kontoudskrift_items>>

\* lines 87-89: the next page of the document is Pages[p]
GivePage(p) ==
    /\ read + Len(Pages[p]) <= MaxElements
    /\ StartPage
    /\ doc' = Append(doc, p)
    /\ rest' = Pages[p]
    /\ UNCHANGED <<calls, kontoudskrift_items>>

\* lines 105-211: the loop reads the next <p> of the page
ReadNext ==
    /\ rest # <<>>
    /\ Read(Head(rest))
    /\ rest' = Tail(rest)
    /\ UNCHANGED <<doc, calls, kontoudskrift_items>>

\* lines 213-220: the loop is over
PageExhausted == rest = <<>> /\ EndPage /\ UNCHANGED caller

\* line 90
DocReturns == ReturnDoc /\ UNCHANGED caller

\* line 232: kontoudskrift_items += parse_doc(...)
Returned ==
    /\ pc = "done"
    /\ pc' = "main"
    /\ calls' = Append(calls, [doc |-> doc, exc |-> "", val |-> result])
    /\ kontoudskrift_items' = kontoudskrift_items \o Get(result)
    /\ UNCHANGED <<page_number, doc_items, result, page_result, exc, locals,
                   read, scen, doc, rest>>

\* the exception leaves parse_doc; __main__ ends with it, another caller
\* may catch it and go on
Failed ==
    /\ pc = "error"
    /\ pc' = "main"
    /\ calls' = Append(calls, [doc |-> doc, exc |-> exc, val |-> None])
    /\ UNCHANGED <<page_number, doc_items, result, page_result, exc, locals,
                   read, scen, doc, rest, kontoudskrift_items>>

\* line 233: kontoudskrift_items.sort(), when no call raised
MainSort ==
    /\ pc = "main"
    /\ \A k \in 1..Len(calls) : calls[k].exc = ""
    /\ pc' = "sorted"
    /\ kontoudskrift_items' = Sorted(kontoudskrift_items)
    /\ UNCHANGED <<page_number, doc_items, result, page_result, exc, locals,
                   read, scen, doc, rest, calls>>

DocNext ==
    \/ CallParseDoc
    \/ \E p \in 1..Len(Pages) : GivePage(p)
    \/ ReadNext
    \/ PageExhausted
    \/ DocReturns
    \/ Returned
    \/ Failed
    \/ MainSort

DocSpec == DocInit /\ [][DocNext]_vars

(***************************************************************************)
(* Vocabulary of the properties.                                           *)
(***************************************************************************)
\* the state machine of the page, read off the flags
Seeking == pc = "page" /\ ~is_recording /\ time_range_end = None
Recording == pc = "page" /\ is_recording
Closed == pc = "page" /\ ~is_recording /\ time_range_end # None

\* the element is the terminator marker of the period in force
IsTerminator(f) ==
    /\ time_range_end # None
    /\ StartsWith(f.text,
            <<"B", "a", "l", "a", "n", "c", "e", " ", "a", "s", " ", "a", "t",
              " ">> \o StrftimeSpaced(Get(time_range_end)))

\* a body-text element at the left position n
BodyAt(f, n) == IsBodyText(f) /\ LeftAmount(Get(f.par_style)) = Some(n)

\* a body-text element with a DD.MM text in the entry-date / value-date band
EntryDateFragment(f) ==
    BodyAt(f, ENTRY_DATE_LEFT_POSITION) /\ MatchesDayMonth(f.text)
ValueDateFragment(f) ==
    BodyAt(f, VALUE_DATE_LEFT_POSITION) /\ MatchesDayMonth(f.text)

\* a body-text element in the credited or the balance band
AmountFragment(f) ==
    /\ IsBodyText(f)
    /\ LeftAmount(Get(f.par_style)) # None
    /\ Get(LeftAmount(Get(f.par_style))) > CREDITED_MIN_LEFT_POSITION

\* the indexes in Pool of these elements
EntryDateFragments == {i \in 1..Len(Pool) : EntryDateFragment(Pool[i])}
ValueDateFragments == {i \in 1..Len(Pool) : ValueDateFragment(Pool[i])}

\* all five fields of the record are set
AllFieldsSet(r) ==
    /\ r.entry_time # None
    /\ r.value_time # None
    /\ r.credited # None
    /\ r.balance # None
    /\ r.description # <<>>

AllComplete(s) == \A k \in 1..Len(s) : AllFieldsSet(s[k])

\* a record with the entry date alone
OnlyEntryDate(r, stamp) ==
    /\ r.entry_time = stamp
    /\ r.value_time = None
    /\ r.description = <<>>
    /\ r.credited = None
    /\ r.balance = None

Date(y, m, d) == [year |-> y, month |-> m, day |-> d]

RECURSIVE Pow10(_)
Pow10(n) == IF n = 0 THEN 1 ELSE 10 * Pow10(n - 1)

\* the Decimal d has the value units / 10^places
DecimalIs(d, units, places) ==
    LET mag == IF units < 0 THEN 0 - units ELSE units
        own == 0 - d.exp
    IN  /\ (d.int # 0) => ((d.sign = 1) <=> (units < 0))
        /\ IF own >= places
           THEN /\ d.int % Pow10(own - places) = 0
                /\ d.int \div Pow10(own - places) = mag
           ELSE /\ mag % Pow10(places - own) = 0
                /\ mag \div Pow10(places - own) = d.int

\* the day of the distance between two dates
AbsDays(a, b) ==
    IF DaysBetween(a, b) < 0 THEN DaysBetween(b, a) ELSE DaysBetween(a, b)

(***************************************************************************)
(* C1: every record in the list under construction, in the list a page     *)
(* returned, in the items of parse_doc and in the list parse_doc returned   *)
(* is complete: all five fields are set.                                   *)
(***************************************************************************)
C1_OnlyCompleteRecords ==
    /\ AllComplete(items)
    /\ AllComplete(page_result)
    /\ AllComplete(doc_items)
    /\ result # None => AllComplete(Get(result))

\* parse_doc returned a record
C1_Witness == result # None /\ Len(Get(result)) >= 1

(***************************************************************************)
(* C2: Closed is terminal: once the terminator marker has been processed,   *)
(* every later element of the page is ignored: it raises nothing and        *)
(* changes neither the open record, the output list, the period nor the    *)
(* recording flag.                                                         *)
(***************************************************************************)
C2_ClosedIsTerminal ==
    [][\A i \in 1..Len(Pool) :
        (Closed /\ Read(i)) => (pc' = "page" /\ UNCHANGED locals)]_vars

(***************************************************************************)
(* C3: every record whose value date is set has it at an absolute distance  *)
(* of less than 7 days from its entry date.                                *)
(***************************************************************************)
ValueDateNear(r) ==
    (r.entry_time # None /\ r.value_time # None)
        => AbsDays(Get(r.value_time), Get(r.entry_time)) < 7

C3_ValueDateWithinWeek ==
    /\ record # None => ValueDateNear(Get(record))
    /\ \A k \in 1..Len(items) : ValueDateNear(items[k])
    /\ \A k \in 1..Len(doc_items) : ValueDateNear(doc_items[k])

(***************************************************************************)
(* C4: while Recording, an element of the entry-date band whose DD.MM text  *)
(* is no calendar date is ignored: no error, and the open record, the       *)
(* output list and the state are unchanged.                                *)
(***************************************************************************)
NoCalendarDate(text) ==
    /\ StrptimeDayMonth(text, Get(time_range_start).year).exc # ""
    /\ StrptimeDayMonth(text, Get(time_range_end).year).exc # ""

C4_InvalidEntryDateIgnored ==
    [][\A i \in EntryDateFragments :
        (/\ Recording
         /\ NoCalendarDate(Pool[i].text)
         /\ Read(i))
        => (pc' = "page" /\ exc' = "" /\ UNCHANGED locals)]_vars

(***************************************************************************)
(* C5: the entry-date strategy tries start.year and then end.year, skips a  *)
(* year in which the day and month are no calendar date, and takes the      *)
(* first candidate within [start, end]; DateOutOfRange is raised only when  *)
(* no year gives such a candidate.                                         *)
(***************************************************************************)
\* the date the strategy is said to give, None when there is none
FirstValidInRange(text, start, end) ==
    LET InRange(c) ==
            /\ c.exc = ""
            /\ DateLE(start, Get(c.val))
            /\ DateLE(Get(c.val), end)
        first  == StrptimeDayMonth(text, start.year)
        second == StrptimeDayMonth(text, end.year)
    IN  IF InRange(first) THEN first.val
        ELSE IF InRange(second) THEN second.val
        ELSE None

C5_EntryDateStrategy ==
    [][\A i \in EntryDateFragments :
        (Recording /\ Read(i))
        => LET stamp == FirstValidInRange(Pool[i].text, Get(time_range_start),
                                          Get(time_range_end))
           IN  /\ exc' = DateOutOfRange => stamp = None
               /\ stamp # None =>
                    (pc' = "page" => Get(record').entry_time = stamp)]_vars

(***************************************************************************)
(* C6: while Recording, a DD.MM element of the value-date band is ignored   *)
(* (no error, no change) when no open record with an entry date exists.     *)
(***************************************************************************)
C6_ValueDateWithoutRecordIgnored ==
    [][\A i \in ValueDateFragments :
        (/\ Recording
         /\ (record = None \/ Get(record).entry_time = None)
         /\ Read(i))
        => (pc' = "page" /\ exc' = "" /\ UNCHANGED locals)]_vars

(***************************************************************************)
(* C7: Scenario 1.  The page made of the period marker, "15.10" (entry),    *)
(* "16.10" (value), "Payment", "received", "100,00+" (credited) and         *)
(* "1.500,00+" (balance) gives exactly one record, of 2016-10-15,           *)
(* 2016-10-16 and "Payment received".  As claimed, its credited is 100.00   *)
(* and its balance 1500.00; as the decoder computes them, the comma is      *)
(* dropped and the period is the decimal point: credited is 10000 and       *)
(* balance 1.50000.                                                        *)
(***************************************************************************)
Scenario1Returned == pc = "doc" /\ scen = Len(Scenario1)

Scenario1Record(r) ==
    /\ r.entry_time = Some(Date(2016, 10, 15))
    /\ r.value_time = Some(Date(2016, 10, 16))
    /\ JoinSpace(r.description) = TxtPayment \o <<" ">> \o TxtReceived

\* the claim as stated
C7_Scenario1_AsClaimed ==
    Scenario1Returned =>
        /\ Len(page_result) = 1
        /\ Scenario1Record(page_result[1])
        /\ DecimalIs(Get(page_result[1].credited), 10000, 2)
        /\ DecimalIs(Get(page_result[1].balance), 150000, 2)

\* the claim as amended
C7_Scenario1 ==
    Scenario1Returned =>
        /\ Len(page_result) = 1
        /\ Scenario1Record(page_result[1])
        /\ DecimalIs(Get(page_result[1].credited), 10000, 0)
        /\ DecimalIs(Get(page_result[1].balance), 150000, 5)

C7_Witness == Scenario1Returned

(***************************************************************************)
(* C8: while Recording, when a DD.MM element of the entry-date band         *)
(* resolves: with no open record a record is opened; with a complete open   *)
(* record that record is appended to the output and a record is opened;     *)
(* with an incomplete open record the page fails with                       *)
(* IncompleteRecordOnNewEntry and nothing is returned.  The record opened   *)
(* has the resolved entry date and no other field.                         *)
(***************************************************************************)
C8_NewEntry ==
    [][\A i \in EntryDateFragments :
        (/\ Recording
         /\ EntryStamp(Pool[i].text, Get(time_range_start),
                       Get(time_range_end)) # None
         /\ Read(i))
        => LET stamp == EntryStamp(Pool[i].text, Get(time_range_start),
                                   Get(time_range_end))
           IN  IF record = None
               THEN /\ pc' = "page"
                    /\ items' = items
                    /\ record' # None
                    /\ OnlyEntryDate(Get(record'), stamp)
               ELSE IF AllFieldsSet(Get(record))
               THEN /\ pc' = "page"
                    /\ items' = Append(items, Get(record))
                    /\ record' # None
                    /\ OnlyEntryDate(Get(record'), stamp)
               ELSE /\ pc' = "error"
                    /\ exc' = IncompleteRecordOnNewEntry
                    /\ result' = None]_vars

\* a complete record was appended and a record with the entry date alone is
\* open
C8_Witness ==
    /\ pc = "page"
    /\ Len(items) >= 1
    /\ record # None
    /\ OnlyEntryDate(Get(record), Get(record).entry_time)

(***************************************************************************)
(* C9: at the end of the elements of a page: with no open record the page   *)
(* returns the records appended so far; a complete open record is appended  *)
(* as the last one; an incomplete open record with an entry date raises     *)
(* IncompletePageEnd.  The same holds when the terminator closed the page.  *)
(***************************************************************************)
C9_EndOfPage ==
    [][EndPage =>
        IF record = None
        THEN pc' = "doc" /\ page_result' = Sorted(items)
        ELSE IF AllFieldsSet(Get(record))
        THEN pc' = "doc" /\ page_result' = Sorted(Append(items, Get(record)))
        ELSE Get(record).entry_time # None =>
                (pc' = "error" /\ exc' = IncompletePageEnd /\ result' = None)
    ]_vars

\* the page was closed by the terminator with an incomplete record open, and
\* its end raised
C9_Witness ==
    /\ pc = "error"
    /\ exc = IncompletePageEnd
    /\ ~is_recording
    /\ time_range_end # None

(***************************************************************************)
(* C10: while Recording with an open record whose value date is set, an     *)
(* element of the credited or balance band without a trailing sign is a     *)
(* fatal error of the document: nothing is returned, whatever was           *)
(* finalized before.  As claimed the error is always MalformedCurrency; as  *)
(* amended it is MalformedCurrency when the digits and periods of the text  *)
(* make a decimal and the conversion error of Decimal when they do not, and *)
(* the terminator marker is excepted.                                      *)
(***************************************************************************)
Unsigned(text) == ~EndsWith(text, <<"+">>) /\ ~EndsWith(text, <<"-">>)

\* the digits and periods of the text make a decimal number
HasMagnitude(text) ==
    LET kept == FilterChars(text, CurrencyChars)
        digs == FilterChars(text, CurrencyChars \ {"."})
    IN  digs # <<>> /\ Len(kept) - Len(digs) <= 1

AmountExpected ==
    Recording /\ record # None /\ Get(record).value_time # None

\* the indexes in Pool of the elements of the two bands without a sign
UnsignedAmountFragments ==
    {i \in 1..Len(Pool) : AmountFragment(Pool[i]) /\ Unsigned(Pool[i].text)}

\* the claim as stated
C10_UnsignedAmount_AsClaimed ==
    [][\A i \in UnsignedAmountFragments :
        (AmountExpected /\ Read(i))
        => (pc' = "error" /\ exc' = MalformedCurrency /\ result' = None)]_vars

\* the claim as amended
C10_UnsignedAmount ==
    [][\A i \in UnsignedAmountFragments :
        (AmountExpected /\ ~IsTerminator(Pool[i]) /\ Read(i))
        => /\ pc' = "error"
           /\ result' = None
           /\ exc' = IF HasMagnitude(Pool[i].text)
                     THEN MalformedCurrency ELSE InvalidOperation]_vars

\* the error was raised after an earlier page had given a record
C10_Witness ==
    /\ pc = "error"
    /\ exc = MalformedCurrency
    /\ Len(doc_items) >= 1
    /\ result = None

(***************************************************************************)
(* Order of the lists returned.                                            *)
(***************************************************************************)
EntryDateOf(r) == Get(r.entry_time)

NonDecreasing(s) ==
    \A k \in 1..(Len(s) - 1) : DateLE(EntryDateOf(s[k]), EntryDateOf(s[k + 1]))

\* the records of s with the entry date d, in their order in s
RECURSIVE WithEntryDate(_, _)
WithEntryDate(s, d) ==
    IF s = <<>> THEN <<>>
    ELSE IF EntryDateOf(s[1]) = d THEN <<s[1]>> \o WithEntryDate(Tail(s), d)
    ELSE WithEntryDate(Tail(s), d)

\* out is inp in non-decreasing order of entry date, the records of one
\* entry date in the order they have in inp
StableSortOf(out, inp) ==
    /\ Len(out) = Len(inp)
    /\ NonDecreasing(out)
    /\ \A k \in 1..Len(inp) :
          WithEntryDate(out, EntryDateOf(inp[k]))
            = WithEntryDate(inp, EntryDateOf(inp[k]))

\* C11: the list parse_page returns is the stable sort by entry date of the
\* records in the order they were finalized on the page, the list parse_doc
\* returns is the stable sort of the page lists concatenated in page order,
\* and the list of __main__ after its sort is the stable sort of the
\* document lists concatenated in document order: each is in non-decreasing
\* entry-date order and records of equal entry date keep their relative order.
C11_StableSortedOutput ==
    [][ /\ (pc = "page" /\ pc' = "doc")
            => /\ StableSortOf(page_result', items')
               /\ doc_items' = doc_items \o page_result'
        /\ (pc = "doc" /\ pc' = "done")
            => StableSortOf(Get(result'), doc_items)
        /\ (pc = "done" /\ pc' = "main")
            => kontoudskrift_items' = kontoudskrift_items \o Get(result)
        /\ (pc = "main" /\ pc' = "sorted")
            => StableSortOf(kontoudskrift_items', kontoudskrift_items)
      ]_vars

\* two documents gave records of one entry date that differ, and __main__
\* sorted its list
C11_Witness ==
    /\ pc = "sorted"
    /\ Len(calls) = 2
    /\ Get(calls[1].val) # <<>>
    /\ Get(calls[2].val) # <<>>
    /\ \E j, k \in 1..Len(kontoudskrift_items) :
          /\ j < k
          /\ EntryDateOf(kontoudskrift_items[j])
                = EntryDateOf(kontoudskrift_items[k])
          /\ kontoudskrift_items[j] # kontoudskrift_items[k]

(***************************************************************************)
(* Pages of a document.                                                    *)
(***************************************************************************)
\* the loop of parse_page over the elements of page, from the locals st
RECURSIVE LoopOver(_, _)
LoopOver(st, page) ==
    IF page = <<>> \/ st.exc # "" THEN st
    ELSE LoopOver(LoopBody(st, page[1]), Tail(page))

\* parse_page called on Pages[p] and on nothing else
ParsePageAlone(p) ==
    LET st == LoopOver(PageStart, Pages[p]) IN
    IF st.exc # "" THEN Raised(st.exc)
    ELSE LET end == PageEnd(st) IN
         IF end.exc # "" THEN Raised(end.exc) ELSE Ok(Sorted(end.items))

PageAlone == [p \in 1..Len(Pages) |-> ParsePageAlone(p)]

\* the lists of the pages of d, each parsed alone, one after the other
RECURSIVE PageLists(_)
PageLists(d) ==
    IF d = <<>> THEN <<>>
    ELSE PageLists(SubSeq(d, 1, Len(d) - 1)) \o Get(PageAlone[d[Len(d)]].val)

HasPeriodMarker(p) ==
    \E k \in 1..Len(Pages[p]) :
        StartsWith(Pool[Pages[p][k]].text,
            <<"P", "e", "r", "i", "o", "d", " ", "t", "h", "i", "s", " ",
              "s", "t", "a", "t", "e", "m", "e", "n", "t", " ",
              "r", "e", "l", "a", "t", "e", "s", " ", "t", "o">>)

\* C12: the pages of a document are parsed independently of each other.
\* Every page starts Seeking, with no period, no open record and no record
\* finalized; what parse_doc holds after a page is the concatenation of the
\* lists its pages give when each is parsed alone, what it returns is the
\* stable sort of that concatenation, and it raises what the first failing
\* page raises alone.  A page without a period marker of its own gives no
\* record, and a record left open at the end of a page is not completed by
\* the next page (the page that leaves it open raises).
C12_PagesIndependent ==
    /\ (pc = "page" /\ rest = Pages[doc[Len(doc)]])
        => /\ Seeking
           /\ time_range_start = None
           /\ record = None
           /\ items = <<>>
    /\ pc \in {"page", "doc", "done", "error"}
        => \A k \in 1..(Len(doc) - 1) : PageAlone[doc[k]].exc = ""
    /\ (pc \in {"doc", "done"} /\ doc # <<>>)
        => /\ PageAlone[doc[Len(doc)]] = Ok(page_result)
           /\ doc_items = PageLists(doc)
           /\ ~HasPeriodMarker(doc[Len(doc)]) => page_result = <<>>
    /\ pc = "done" => StableSortOf(Get(result), PageLists(doc))
    /\ pc = "error" => PageAlone[doc[Len(doc)]] = Raised(exc)

\* a document of two pages that both give records was returned
C12_Witness ==
    /\ pc = "done"
    /\ Len(doc) = 2
    /\ Get(PageAlone[doc[1]].val) # <<>>
    /\ Get(PageAlone[doc[2]].val) # <<>>
    /\ Len(Get(result)) >= 2

(***************************************************************************)
(* Calls of parse_doc one after the other.                                 *)
(***************************************************************************)
\* C14: two calls of parse_doc on the same sequence of pages end the same
\* way, with equal lists of records or with the same exception, whatever
\* the earlier call left behind.
C14_SameDocumentSameOutcome ==
    \A j, k \in 1..Len(calls) :
        calls[j].doc = calls[k].doc
            => calls[j].exc = calls[k].exc /\ calls[j].val = calls[k].val

\* the second call was given the pages of the first: both returned records,
\* or both raised
C14_Witness ==
    /\ Len(calls) = 2
    /\ calls[1].doc = calls[2].doc
    /\ calls[1].doc # <<>>
    /\ \/ calls[2].exc # ""
       \/ Get(calls[2].val) # <<>>

(***************************************************************************)
(* Elements the loop passes over.                                          *)
(***************************************************************************)
IsPeriodMarker(f) ==
    StartsWith(f.text,
        <<"P", "e", "r", "i", "o", "d", " ", "t", "h", "i", "s", " ",
          "s", "t", "a", "t", "e", "m", "e", "n", "t", " ",
          "r", "e", "l", "a", "t", "e", "s", " ", "t", "o">>)

\* the indexes in Pool of the body-text elements without a left offset in
\* the paragraph style, of the elements that are not body text, and of the
\* body-text period markers
NoOffsetFragments ==
    {i \in 1..Len(Pool) :
        IsBodyText(Pool[i]) /\ LeftAmount(Get(Pool[i].par_style)) = None}
NonBodyFragments == {i \in 1..Len(Pool) : ~IsBodyText(Pool[i])}
PeriodMarkerFragments ==
    {i \in 1..Len(Pool) : IsBodyText(Pool[i]) /\ IsPeriodMarker(Pool[i])}

\* the step left the page as it was and raised nothing
Ignored ==
    /\ pc' = "page"
    /\ exc' = ""
    /\ UNCHANGED <<locals, doc_items, page_result, result>>

\* C13 as claimed: a body-text element without a left offset raises
\* MissingLayoutOffset in whichever state it is read
C13_MissingOffset_AsClaimed ==
    [][ \A i \in NoOffsetFragments :
          (pc = "page" /\ Read(i))
            => (pc' = "error" /\ exc' = MissingLayoutOffset) ]_vars

\* C13: a body-text element without a left offset raises MissingLayoutOffset
\* when it is read while Recording and is not the terminator marker of the
\* period in force; read while Seeking or Closed it raises nothing, and
\* unless it is a period marker it is ignored.
C13_MissingOffset ==
    [][ \A i \in NoOffsetFragments :
          (pc = "page" /\ Read(i))
            => IF is_recording /\ ~IsTerminator(Pool[i])
               THEN pc' = "error" /\ exc' = MissingLayoutOffset
               ELSE /\ exc' # MissingLayoutOffset
                    /\ (i \notin PeriodMarkerFragments /\ ~is_recording)
                         => Ignored ]_vars

\* MissingLayoutOffset was raised
C13_Witness == pc = "error" /\ exc = MissingLayoutOffset /\ is_recording

\* C15: while Seeking every element that is not a body-text period marker
\* is ignored: no record is opened, no local changes, nothing is appended
\* and nothing is raised, whatever its band and text; an element that is
\* not body text is ignored in the same way in every state.
C15_SeekingIgnores ==
    [][ \A i \in 1..Len(Pool) :
          (/\ pc = "page"
           /\ \/ i \in NonBodyFragments
              \/ Seeking /\ i \notin PeriodMarkerFragments
           /\ Read(i))
            => Ignored ]_vars

\* elements were read and the page is still Seeking
C15_Witness == Seeking /\ scen = -1 /\ read >= 2 /\ page_number = 1

(***************************************************************************)
(* Bands of the amounts and of the description.                            *)
(***************************************************************************)
\* the indexes in Pool of the body-text elements with a left offset that is
\* neither the entry-date nor the value-date position
FieldFragments ==
    {i \in 1..Len(Pool) :
        /\ IsBodyText(Pool[i])
        /\ LeftAmount(Get(Pool[i].par_style)) # None
        /\ Get(LeftAmount(Get(Pool[i].par_style)))
              \notin {ENTRY_DATE_LEFT_POSITION, VALUE_DATE_LEFT_POSITION}}

\* what the Currency Decoder gives for the text of each element
DecodedText ==
    [i \in 1..Len(Pool) |-> bank_currency_format_to_decimal(Pool[i].text)]

\* the step replaced the open record by r and changed nothing else
OpenRecordBecomes(r) ==
    /\ pc' = "page"
    /\ exc' = ""
    /\ record' = Some(r)
    /\ UNCHANGED <<items, is_recording, time_range_start, time_range_end,
                   doc_items, page_result, result>>

C17_PeriodSetOnce ==
    [][ (pc = "page" /\ time_range_end # None /\ pc' = "page")
          => UNCHANGED <<time_range_start, time_range_end>> ]_vars

(***************************************************************************)
(* Entry dates and the period.                                             *)
(***************************************************************************)
\* d lies within the period of the page, bounds included
InPeriod(d) ==
    /\ time_range_start # None
    /\ time_range_end # None
    /\ DateLE(Get(time_range_start), d)
    /\ DateLE(d, Get(time_range_end))

\* the step of the loop put a new record in the place of the open record
OpensRecord ==
    /\ pc = "page"
    /\ pc' = "page"
    /\ record' # None
    /\ \/ record = None
       \/ items' # items
       \/ Get(record').entry_time # Get(record).entry_time

\* the records of the sequence s
Records(s) == {s[k] : k \in 1..Len(s)}

\* C18: the entry date of a record lies within the period that was in force
\* when its entry-date element was read, bounds included: a record is
\* opened only with an entry date within the period of that moment, no
\* later step changes the entry date of the open record, and the records
\* appended and returned are the open record as it is.  An entry-date
\* element that gives no date within the period in either year raises
\* DateOutOfRange and opens no record.
C18_EntryDateInPeriod ==
    [][ /\ OpensRecord
            => /\ Get(record').entry_time # None
               /\ InPeriod(Get(Get(record').entry_time))
               /\ UNCHANGED <<time_range_start, time_range_end>>
        /\ (pc = "page" /\ pc' = "page" /\ record # None /\ items' = items)
            => /\ record' # None
               /\ Get(record').entry_time = Get(record).entry_time
        /\ (pc = "page" /\ pc' = "page" /\ items' # items)
            => record # None /\ items' = Append(items, Get(record))
        /\ (pc = "page" /\ pc' = "doc")
            => /\ Records(page_result')
                    \subseteq Records(items)
                        \cup (IF record = None THEN {} ELSE {Get(record)})
               /\ doc_items' = doc_items \o page_result'
        /\ \A i \in EntryDateFragments :
              (/\ Recording
               /\ Read(i)
               /\ FirstValidInRange(Pool[i].text, Get(time_range_start),
                                    Get(time_range_end)) = None)
                => /\ pc' = "error"
                   /\ exc' = DateOutOfRange
                   /\ UNCHANGED <<record, items>>
      ]_vars

\* the first page returned a record; its entry date is within the period
C18_Witness ==
    /\ pc = "doc"
    /\ page_number = 1
    /\ page_result # <<>>
    /\ InPeriod(Get(page_result[1].entry_time))

(***************************************************************************)
(* The open record.                                                        *)
(***************************************************************************)
\* C19: the open record (the one record the page holds outside its list)
\* always has its entry date; so the end of a page with an open record that
\* is not complete never drops the record silently: it raises
\* IncompletePageEnd and the page returns nothing.
C19_OpenRecordHasEntryDate ==
    [][ /\ record' # None => Get(record').entry_time # None
        /\ (/\ pc = "page"
            /\ read' = read
            /\ record # None
            /\ ~AllFieldsSet(Get(record)))
            => /\ pc' = "error"
               /\ exc' = IncompletePageEnd
               /\ UNCHANGED <<page_result, doc_items, result>>
      ]_vars

\* a page ended while Recording, with an open record that had no value date
C19_Witness ==
    /\ pc = "error"
    /\ exc = IncompletePageEnd
    /\ is_recording
    /\ record # None
    /\ Get(record).entry_time # None
    /\ Get(record).value_time = None

(***************************************************************************)
(* The records appended.                                                   *)
(***************************************************************************)
\* s is the beginning of t
IsPrefix(s, t) == Len(s) <= Len(t) /\ SubSeq(t, 1, Len(s)) = s

\* C20: a record in the list of the page is never changed again: a step
\* of the page leaves the list as it is or appends the open record to it,
\* and when the loop goes on after an append the open record is a new one
\* that has its entry date alone; the list of the document only grows at its
\* end as well.
C20_AppendOnly ==
    [][ /\ pc = "page"
            => /\ IsPrefix(items, items')
               /\ items' # items
                    => /\ record # None
                       /\ items' = Append(items, Get(record))
                       /\ pc' = "page"
                            => /\ record' # None
                               /\ OnlyEntryDate(Get(record'),
                                                Get(record').entry_time)
        /\ IsPrefix(doc_items, doc_items')
      ]_vars

\* a record was appended and the value date of the next one has been read
C20_Witness ==
    /\ pc = "page"
    /\ Len(items) >= 1
    /\ record # None
    /\ Get(record).value_time # None

====
